---- MODULE Spec2Model ----
(***************************************************************************)
(* Scanner Gate file manager: the refresh / new-arrival tracking cycle and *)
(* the disposition workflows of FileManagerUI, in the Semi-Final build     *)
(* (src/systems/Semi-Final-Ui-Build.py) and in the earlier pre-icons build *)
(* (src/systems/ModernFileManagerUI_pre_icons.py).                         *)
(*                                                                         *)
(* File names and row texts are sequences of one-character strings, so the *)
(* formatting of a row (name + " [NEW]") and its parsing back on a click   *)
(* are computed as the code computes them.                                 *)
(***************************************************************************)
EXTENDS Integers, Sequences, FiniteSets, TLC

\* ------------------------------------------------------------------ bounds

\* Modification times are 1..MaxTime (0 stands for "no such file").
MaxTime == 2
\* Number of changes made to the watched folder by other processes in one run.
MaxExt == 2
\* Number of disposition actions (Edit, Delete, the three buttons of the
\* "Rename Scan" window) the user carries out in one run.
MaxOps == 1

\* self.after(5000, self.auto_refresh): the period of the timer, in seconds.
Period == 5

\* ----------------------------------------------------------------- strings

\* U+0663 ARABIC-INDIC DIGIT THREE: str.isdigit() is true, int() gives 3,
\* and the pattern [0-9] does not match it.
AR3 == "U+0663"

AsciiDigits == {"0", "1", "2", "3", "4", "5", "6", "7", "8", "9"}

DigitVal(c) ==
    CASE c = "0" -> 0 [] c = "1" -> 1 [] c = "2" -> 2 [] c = "3" -> 3
      [] c = "4" -> 4 [] c = "5" -> 5 [] c = "6" -> 6 [] c = "7" -> 7
      [] c = "8" -> 8 [] c = "9" -> 9 [] c = AR3 -> 3

\* str.lower() on one character of the alphabet used here.
LowerChar(c) ==
    CASE c = "A" -> "a" [] c = "E" -> "e" [] c = "F" -> "f" [] c = "N" -> "n"
      [] c = "T" -> "t" [] c = "W" -> "w" [] OTHER -> c

Lower(s) == [i \in 1..Len(s) |-> LowerChar(s[i])]

\* A total order on characters (code point order on the alphabet used here).
CharRank(c) ==
    CASE c = " " -> 32 [] c = "." -> 46
      [] c \in AsciiDigits -> 48 + DigitVal(c)
      [] c = "A" -> 65 [] c = "E" -> 69 [] c = "F" -> 70 [] c = "N" -> 78
      [] c = "T" -> 84 [] c = "W" -> 87 [] c = "[" -> 91 [] c = "]" -> 93
      [] c = "a" -> 97 [] c = "b" -> 98 [] c = "e" -> 101 [] c = "f" -> 102
      [] c = "i" -> 105 [] c = "l" -> 108 [] c = "n" -> 110 [] c = "t" -> 116
      [] c = "w" -> 119
      [] c = AR3 -> 1635

\* Lexicographic order of two strings: "lt", "eq" or "gt".
RECURSIVE StrCmp(_, _)
StrCmp(s, t) ==
    IF s = <<>> /\ t = <<>> THEN "eq"
    ELSE IF s = <<>> THEN "lt"
    ELSE IF t = <<>> THEN "gt"
    ELSE IF CharRank(Head(s)) < CharRank(Head(t)) THEN "lt"
    ELSE IF CharRank(Head(s)) > CharRank(Head(t)) THEN "gt"
    ELSE StrCmp(Tail(s), Tail(t))

\* str.endswith
EndsWith(s, suffix) ==
    /\ Len(suffix) <= Len(s)
    /\ SubSeq(s, Len(s) - Len(suffix) + 1, Len(s)) = suffix

\* str.strip(): leading and trailing blanks removed.
RECURSIVE LStrip(_)
LStrip(s) == IF s # <<>> /\ Head(s) = " " THEN LStrip(Tail(s)) ELSE s

RECURSIVE RStrip(_)
RStrip(s) ==
    IF s # <<>> /\ s[Len(s)] = " " THEN RStrip(SubSeq(s, 1, Len(s) - 1)) ELSE s

Strip(s) == RStrip(LStrip(s))

\* The text appended to the name of a flagged file, and s[:-6].
NewTag == <<" ", "[", "N", "E", "W", "]">>

DropLast6(s) == IF Len(s) <= 6 THEN <<>> ELSE SubSeq(s, 1, Len(s) - 6)

\* os.path.splitext(name)[1]: from the last dot on, unless only dots precede it.
LastDot(s) ==
    LET ds == {i \in 1..Len(s) : s[i] = "."}
    IN  IF ds = {} THEN 0 ELSE CHOOSE i \in ds : \A j \in ds : j <= i

SplitExt(s) ==
    LET d == LastDot(s)
    IN  IF d = 0 \/ (\A i \in 1..(d - 1) : s[i] = ".") THEN <<>>
        ELSE SubSeq(s, d, Len(s))

\* ------------------------------------------------------------- natural_key

\* re.split('([0-9]+)', s): text, digits, text, ..., text; a text may be empty.
RECURSIVE DigitPrefixLen(_)
DigitPrefixLen(s) ==
    IF s # <<>> /\ Head(s) \in AsciiDigits THEN 1 + DigitPrefixLen(Tail(s)) ELSE 0

RECURSIVE TextPrefixLen(_)
TextPrefixLen(s) ==
    IF s # <<>> /\ Head(s) \notin AsciiDigits THEN 1 + TextPrefixLen(Tail(s)) ELSE 0

RECURSIVE ReSplit(_)
ReSplit(s) ==
    LET t == TextPrefixLen(s)
        rest == SubSeq(s, t + 1, Len(s))
        d == DigitPrefixLen(rest)
    IN  IF rest = <<>> THEN <<SubSeq(s, 1, t)>>
        ELSE <<SubSeq(s, 1, t), SubSeq(rest, 1, d)>>
                 \o ReSplit(SubSeq(rest, d + 1, Len(rest)))

\* str.isdigit(): non-empty and every character a digit (Unicode digits too).
IsDigit(s) == s # <<>> /\ \A i \in 1..Len(s) : s[i] \in AsciiDigits \cup {AR3}

\* int(text) of a run of decimal digits.
RECURSIVE IntVal(_)
IntVal(s) ==
    IF s = <<>> THEN 0
    ELSE 10 * IntVal(SubSeq(s, 1, Len(s) - 1)) + DigitVal(s[Len(s)])

\* One element of the key: an int (kind "int", n) or a lowered text (kind "str", s).
KeyPart(text) ==
    IF IsDigit(text) THEN [kind |-> "int", n |-> IntVal(text), s |-> <<>>]
    ELSE [kind |-> "str", n |-> 0, s |-> Lower(text)]

natural_key(s) == LET parts == ReSplit(s) IN [i \in 1..Len(parts) |-> KeyPart(parts[i])]

\* Python's list comparison of two keys: "lt", "eq", "gt", or "err" when the
\* first differing elements are an int and a str (TypeError).
RECURSIVE KeyCmp(_, _)
KeyCmp(a, b) ==
    IF a = <<>> /\ b = <<>> THEN "eq"
    ELSE IF a = <<>> THEN "lt"
    ELSE IF b = <<>> THEN "gt"
    ELSE IF Head(a) = Head(b) THEN KeyCmp(Tail(a), Tail(b))
    ELSE IF Head(a).kind # Head(b).kind THEN "err"
    ELSE IF Head(a).kind = "int"
         THEN (IF Head(a).n < Head(b).n THEN "lt" ELSE "gt")
    ELSE StrCmp(Head(a).s, Head(b).s)

\* ------------------------------------------------------------------ sorting

\* A FileInfo is [dir, name, mtime]: its path is dir/name.
FileInfo(d, n, t) == [dir |-> d, name |-> n, mtime |-> t]

\* Comparison of the Semi-Final sort key (-timestamp, natural_key(name)).
SortKeyCmp(f, g) ==
    IF f.mtime > g.mtime THEN "lt"
    ELSE IF f.mtime < g.mtime THEN "gt"
    ELSE KeyCmp(natural_key(f.name), natural_key(g.name))

\* Comparison of the pre-icons sort key (last_modified, reverse=True).
PreIcons_SortKeyCmp(f, g) ==
    IF f.mtime > g.mtime THEN "lt"
    ELSE IF f.mtime < g.mtime THEN "gt"
    ELSE "eq"

RECURSIVE Perms(_)
Perms(S) ==
    IF S = {} THEN {<<>>}
    ELSE UNION {{<<x>> \o p : p \in Perms(S \ {x})} : x \in S}

\* list.sort raises when two records it has to order cannot be compared.
SortRaises(S) ==
    \E f, g \in S : f # g /\ SortKeyCmp(f, g) = "err"

\* The lists list.sort can leave for the records S: os.scandir enumerates in
\* any order and the sort is stable, so records with equal keys keep any order.
SortedLists(S) ==
    {p \in Perms(S) :
        \A i, j \in 1..Len(p) : i < j => SortKeyCmp(p[i], p[j]) \in {"lt", "eq"}}

PreIcons_SortedLists(S) ==
    {p \in Perms(S) :
        \A i, j \in 1..Len(p) : i < j => PreIcons_SortKeyCmp(p[i], p[j]) \in {"lt", "eq"}}

\* -------------------------------------------------------------------- state

\* The folders that can be selected for scanning, and the other folders.
ScanDirs == {"A", "B"}
DestDir == "dest"
StoreDir == "store"

\* File names of the scan folders.
NameA == <<"a", ".", "t">>
NameSpA == <<" ", "a", ".", "t">>
ArrivalNames == {NameA, NameSpA}

VARIABLES
    build,            \* which program runs: "SemiFinal" or "PreIcons"
    phase,            \* "created", "selected", "running" or "destroyed"
    fs,               \* scan folder -> set of [name, mtime] (the files in it)
    copies,           \* destination folder -> names of the files copied into it
    ext,              \* changes made by other processes so far
    ops,              \* disposition actions carried out so far
    settings,         \* self.settings
    directory,        \* self.directory ("" when none is selected)
    files,            \* self.files
    tree,             \* rows of self.tree: [text, tag]
    selection,        \* index of the selected row, 0 when none
    menu,             \* self.menu is not None
    posted,           \* the context menu is on screen
    new_files,        \* self.new_files
    displayed_files,  \* self.displayed_files
    first_scan_done,  \* self.first_scan_done
    rename_win,       \* <<file>> while the "Rename Scan" window is open
    timer,            \* pending after(5000, auto_refresh) callbacks
    hist,             \* history: completed scans (capped) and the last scan's names
    last,             \* history: the handler that ran last and what it did
    clock,            \* seconds: until the pending tick is due, since the last Reload
    auto_refresh_id   \* self._auto_refresh_id: "none", or the id of the callback
                      \* that is "pending" or of one that has "fired"

vars == <<build, phase, fs, copies, ext, ops, settings, directory, files, tree,
          selection, menu, posted, new_files, displayed_files, first_scan_done,
          rename_win, timer, hist, last, clock, auto_refresh_id>>

Names(fl) == {fl[i].name : i \in 1..Len(fl)}

Exists(F, d, n) == \E e \in F[d] : e.name = n

\* scan_directory: one FileInfo per file of the folder.
scan_directory(F, d) == {FileInfo(d, e.name, e.mtime) : e \in F[d]}

\* The row inserted for a file.
Row(f, flagged) ==
    IF f.name \in flagged THEN [text |-> f.name \o NewTag, tag |-> TRUE]
    ELSE [text |-> f.name, tag |-> FALSE]

Rows(fl, flagged) == [i \in 1..Len(fl) |-> Row(fl[i], flagged)]

\* What refresh_files leaves; raised: the exception that left it ("" when
\* none), scanned: a sorted snapshot was produced and rendered.
Unchanged(raised) ==
    [files |-> files, tree |-> tree, selection |-> selection,
     new_files |-> new_files, displayed_files |-> displayed_files,
     first_scan_done |-> first_scan_done, raised |-> raised, scanned |-> FALSE]

Raised(r) == r.raised # ""

\* The lists self.files can hold after scan and sort of folder d.
SemiFinal_Lists(F, d) ==
    IF SortRaises(scan_directory(F, d)) THEN Perms(scan_directory(F, d))
    ELSE SortedLists(scan_directory(F, d))

\* refresh_files without its assignments of self.displayed_files.
refresh_files_KeepsDisplayed(d, F, ok, p) ==
    IF d = "" THEN Unchanged("")
    ELSE IF ~ok THEN Unchanged("scan")
    ELSE IF SortRaises(scan_directory(F, d))
         THEN [Unchanged("sort") EXCEPT !.files = p]
    ELSE LET current_names == Names(p)
             flagged == IF ~first_scan_done THEN {}
                        ELSE new_files \cup (current_names \ displayed_files)
         IN  [files |-> p, tree |-> Rows(p, flagged), selection |-> 0,
              new_files |-> flagged, displayed_files |-> displayed_files,
              first_scan_done |-> TRUE, raised |-> "", scanned |-> TRUE]

\* refresh_files with the flagged set cut down to the names of the scan.
refresh_files_PrunesFlagged(d, F, ok, p) ==
    IF d = "" THEN Unchanged("")
    ELSE IF ~ok THEN Unchanged("scan")
    ELSE IF SortRaises(scan_directory(F, d))
         THEN [Unchanged("sort") EXCEPT !.files = p]
    ELSE LET current_names == Names(p)
             flagged == IF ~first_scan_done THEN {}
                        ELSE (new_files \cup (current_names \ displayed_files))
                             \cap current_names
         IN  [files |-> p, tree |-> Rows(p, flagged), selection |-> 0,
              new_files |-> flagged, displayed_files |-> current_names,
              first_scan_done |-> TRUE, raised |-> "", scanned |-> TRUE]

\* refresh_files that takes a scan for an arrival only when the folder holds
\* more names than were displayed.
refresh_files_FlagsGrowthOnly(d, F, ok, p) ==
    IF d = "" THEN Unchanged("")
    ELSE IF ~ok THEN Unchanged("scan")
    ELSE IF SortRaises(scan_directory(F, d))
         THEN [Unchanged("sort") EXCEPT !.files = p]
    ELSE LET current_names == Names(p)
             flagged == IF ~first_scan_done THEN {}
                        ELSE IF Cardinality(current_names) > Cardinality(displayed_files)
                        THEN new_files \cup (current_names \ displayed_files)
                        ELSE new_files
         IN  [files |-> p, tree |-> Rows(p, flagged), selection |-> 0,
              new_files |-> flagged, displayed_files |-> current_names,
              first_scan_done |-> TRUE, raised |-> "", scanned |-> TRUE]

\* Semi-Final refresh_files with self.directory = d on the file system F; ok:
\* os.scandir and the stat calls succeed; p: the list the sort leaves.
refresh_files(d, F, ok, p) ==
    IF d = "" THEN Unchanged("")
    ELSE IF ~ok THEN Unchanged("scan")
    ELSE IF SortRaises(scan_directory(F, d))
         THEN [Unchanged("sort") EXCEPT !.files = p]
    ELSE LET current_names == Names(p)
             flagged == IF ~first_scan_done THEN {}
                        ELSE new_files \cup (current_names \ displayed_files)
         IN  [files |-> p, tree |-> Rows(p, flagged), selection |-> 0,
              new_files |-> flagged, displayed_files |-> current_names,
              first_scan_done |-> TRUE, raised |-> "", scanned |-> TRUE]

\* Pre-icons refresh_files: no first-scan case, sorted by time only.
PreIcons_refresh_files(d, F, ok, p) ==
    IF d = "" THEN Unchanged("")
    ELSE IF ~ok THEN Unchanged("scan")
    ELSE LET current_names == Names(p)
             flagged == new_files \cup (current_names \ displayed_files)
         IN  [files |-> p, tree |-> Rows(p, flagged), selection |-> 0,
              new_files |-> flagged, displayed_files |-> current_names,
              first_scan_done |-> first_scan_done, raised |-> "",
              scanned |-> TRUE]

\* The refresh of the running build.
Lists(d, F) ==
    IF d = "" THEN {<<>>}
    ELSE IF build = "SemiFinal" THEN SemiFinal_Lists(F, d)
    ELSE PreIcons_SortedLists(scan_directory(F, d))

Refresh(d, F, ok, p) ==
    IF build = "SemiFinal" THEN refresh_files(d, F, ok, p)
    ELSE PreIcons_refresh_files(d, F, ok, p)

\* The variables refresh_files writes, set from its result r; picked: the
\* handler has just set self.directory. The history counts the completed
\* scans (0, 1, 2 for more) and keeps where the folder selection stands: "none",
\* "pending" (selected, not scanned yet), "first" (scanned once) or "later".
NextSel(sel, picked, scanned) ==
    LET s0 == IF picked THEN "pending" ELSE sel
    IN  IF ~scanned THEN s0
        ELSE IF s0 = "pending" THEN "first" ELSE "later"

Apply(r, picked) ==
    /\ files' = r.files
    /\ tree' = r.tree
    /\ selection' = r.selection
    /\ new_files' = r.new_files
    /\ displayed_files' = r.displayed_files
    /\ first_scan_done' = r.first_scan_done
    /\ hist' = [scans |-> IF r.scanned /\ hist.scans < 2 THEN hist.scans + 1
                          ELSE hist.scans,
                snap |-> IF r.scanned THEN Names(r.files) ELSE hist.snap,
                sel |-> NextSel(hist.sel, picked, r.scanned)]

NoRefresh ==
    UNCHANGED <<files, tree, selection, new_files, displayed_files,
                first_scan_done, hist>>

\* What a handler did, for the history variable last.
Did(op, row, log) == [op |-> op, row |-> row, log |-> log]

RLog(r) ==
    IF r.raised = "scan" THEN <<"scan_raised">>
    ELSE IF r.raised = "sort" THEN <<"sort_raised">>
    ELSE IF r.scanned THEN <<"refresh">> ELSE <<>>

\* --------------------------------------------------------------------- Init

File(n, t) == [name |-> n, mtime |-> t]

InitFolders ==
    {[A |-> a, B |-> b] :
        a \in {{}, {File(NameA, 1)}, {File(NameA, 1), File(NameSpA, 1)}},
        b \in {{}, {File(NameA, 1)}}}

\* The state when __init__ has built the widgets and the tracking sets and is
\* about to choose the folder.
Init ==
    /\ build \in {"SemiFinal", "PreIcons"}
    /\ phase = "created"
    /\ fs \in InitFolders
    /\ copies = [d \in {DestDir, StoreDir} |-> {}]
    /\ ext = 0
    /\ ops = 0
    /\ settings \in [default_folder : {"", "A"}, default_storage : {"", StoreDir}]
    /\ directory = ""
    /\ files = <<>>
    /\ tree = <<>>
    /\ selection = 0
    /\ menu = FALSE
    /\ posted = FALSE
    /\ new_files = {}
    /\ displayed_files = {}
    /\ first_scan_done = FALSE
    /\ rename_win = <<>>
    /\ timer = 0
    /\ hist = [scans |-> 0, snap |-> {}, sel |-> "none"]
    /\ last = Did("init", 0, <<>>)
    /\ clock \in {[run |-> counted, due |-> 0, since |-> Period] : counted \in BOOLEAN}
    /\ auto_refresh_id = "none"

\* -------------------------------------------------------------- environment

\* Another process writes a file into folder A while the window watches it (a
\* new scan arrives, or an existing file is rewritten); the time of the write
\* is not before the times of the files already there.
ExtWrite(d, n, t) ==
    /\ phase = "running"
    /\ d = "A"
    /\ d = directory
    /\ ext < MaxExt
    /\ File(n, t) \notin fs[d]
    /\ \A e \in fs[d] : e.mtime <= t
    /\ fs' = [fs EXCEPT ![d] = {e \in @ : e.name # n} \cup {File(n, t)}]
    /\ ext' = ext + 1
    /\ last' = Did("other_process", 0, <<>>)
    /\ UNCHANGED <<auto_refresh_id, clock, build, phase, copies, ops, settings, directory, files, tree,
                   selection, menu, posted, new_files, displayed_files,
                   first_scan_done, rename_win, timer, hist>>

\* Another process removes a file from folder A while the window watches it.
ExtRemove(d, n) ==
    /\ phase = "running"
    /\ d = "A"
    /\ d = directory
    /\ ext < MaxExt
    /\ Exists(fs, d, n)
    /\ fs' = [fs EXCEPT ![d] = {e \in @ : e.name # n}]
    /\ ext' = ext + 1
    /\ last' = Did("other_process", 0, <<>>)
    /\ UNCHANGED <<auto_refresh_id, clock, build, phase, copies, ops, settings, directory, files, tree,
                   selection, menu, posted, new_files, displayed_files,
                   first_scan_done, rename_win, timer, hist>>

\* ------------------------------------------------------- startup and timer

\* The clock counts seconds when clock.run is set: due is the time left until
\* the callback scheduled last may run, since is the time passed since the last
\* Reload (Period when it is that long ago, or when there was none). With
\* clock.run unset time is left out and the callback may run at any moment.
ClockAfter(scheduled, reloaded) ==
    IF ~clock.run THEN clock
    ELSE [clock EXCEPT !.due = IF scheduled THEN Period ELSE @,
                       !.since = IF reloaded THEN 0 ELSE @]

\* self._auto_refresh_id when auto_refresh returns or raises; scheduled: it
\* reached self.after. The pre-icons build does not record the id.
IdAfter(scheduled) ==
    IF build = "PreIcons" THEN auto_refresh_id
    ELSE IF scheduled THEN "pending"
    ELSE IF auto_refresh_id = "pending" THEN "fired"
    ELSE auto_refresh_id

\* A second passes.
Second ==
    /\ phase = "running"
    /\ clock.run
    /\ clock' = [clock EXCEPT !.due = IF @ > 0 THEN @ - 1 ELSE 0,
                              !.since = IF @ < Period THEN @ + 1 ELSE Period]
    /\ last' = Did("second", 0, <<>>)
    /\ UNCHANGED <<auto_refresh_id, build, phase, fs, copies, ext, ops, settings, directory, files,
                   tree, selection, menu, posted, new_files, displayed_files,
                   first_scan_done, rename_win, timer, hist>>

\* __init__, the choice of the folder: the default folder of the settings, or
\* else select_folder (the picker returns folder, "" when cancelled). An
\* exception is caught by __init__, which destroys the window.
Startup_folder(folder, ok) ==
    /\ phase = "created"
    /\ LET d == IF settings.default_folder # "" THEN settings.default_folder
                ELSE folder
       IN  \E p \in Lists(d, fs) :
             LET r == Refresh(d, fs, ok, p)
             IN  /\ directory' = d
                 /\ Apply(r, d # "")
                 /\ phase' = IF Raised(r) THEN "destroyed" ELSE "selected"
                 /\ last' = Did("__init__", 0, RLog(r))
    /\ UNCHANGED <<auto_refresh_id, clock, build, fs, copies, ext, ops, settings, menu, posted, rename_win,
                   timer>>

\* __init__, the first call of auto_refresh.
Startup_auto_refresh(ok) ==
    /\ phase = "selected"
    /\ \E p \in Lists(directory, fs) :
         LET r == Refresh(directory, fs, ok, p)
         IN
           /\ Apply(r, FALSE)
           /\ phase' = IF Raised(r) THEN "destroyed" ELSE "running"
           /\ timer' = IF Raised(r) THEN 0 ELSE 1
           /\ clock' = ClockAfter(~Raised(r), FALSE)
           /\ auto_refresh_id' = IdAfter(~Raised(r))
           /\ last' = Did("auto_refresh", 0, RLog(r))
    /\ UNCHANGED <<build, fs, copies, ext, ops, settings, directory, menu, posted,
                   rename_win>>

\* auto_refresh with the return of refresh_files (no folder) taken as the end
\* of the loop.
auto_refresh_StopsWithoutDirectory(ok) ==
    /\ phase = "running"
    /\ timer > 0
    /\ clock.due = 0
    /\ \E p \in Lists(directory, fs) :
         LET r == Refresh(directory, fs, ok, p)
             stop == Raised(r) \/ directory = ""
         IN
           /\ Apply(r, FALSE)
           /\ timer' = IF stop THEN timer - 1 ELSE timer
           /\ clock' = ClockAfter(~stop, FALSE)
           /\ auto_refresh_id' = IdAfter(~stop)
           /\ last' = Did("auto_refresh", 0, RLog(r))
    /\ UNCHANGED <<build, phase, fs, copies, ext, ops, settings, directory, menu,
                   posted, rename_win>>

\* The timer fires auto_refresh: refresh, then schedule the next tick. An
\* exception of the refresh leaves the callback before it reschedules.
auto_refresh(ok) ==
    /\ phase = "running"
    /\ timer > 0
    /\ clock.due = 0
    /\ \E p \in Lists(directory, fs) :
         LET r == Refresh(directory, fs, ok, p)
         IN
           /\ Apply(r, FALSE)
           /\ timer' = IF Raised(r) THEN timer - 1 ELSE timer
           /\ clock' = ClockAfter(~Raised(r), FALSE)
           /\ auto_refresh_id' = IdAfter(~Raised(r))
           /\ last' = Did("auto_refresh", 0, RLog(r))
    /\ UNCHANGED <<build, phase, fs, copies, ext, ops, settings, directory, menu,
                   posted, rename_win>>

\* scan_directory while another process removes the files named in gone
\* after os.scandir has listed them: FileInfo(entry.path) raises for the first
\* of them, and nothing in scan_directory catches it.
scan_directory_racing(F, d, gone) ==
    [raised |-> \E e \in F[d] : e.name \in gone,
     records |-> {FileInfo(d, e.name, e.mtime) : e \in {x \in F[d] : x.name \notin gone}}]

\* A timer tick during whose scan another process removes the file n.
auto_refresh_racing(n) ==
    /\ phase = "running"
    /\ timer > 0
    /\ clock.due = 0
    /\ directory # ""
    /\ ext < MaxExt
    /\ Exists(fs, directory, n)
    /\ fs' = [fs EXCEPT ![directory] = {e \in @ : e.name # n}]
    /\ ext' = ext + 1
    /\ LET scan == scan_directory_racing(fs, directory, {n})
           r == Refresh(directory, fs, ~scan.raised, <<>>)
       IN  /\ Apply(r, FALSE)
           /\ timer' = IF Raised(r) THEN timer - 1 ELSE timer
           /\ clock' = ClockAfter(~Raised(r), FALSE)
           /\ auto_refresh_id' = IdAfter(~Raised(r))
           /\ last' = Did("auto_refresh", 0, <<"stat_failed">> \o RLog(r))
    /\ UNCHANGED <<build, phase, copies, ops, settings, directory, menu, posted,
                   rename_win>>

\* destroy that leaves the scheduled callback alive.
destroy_KeepsCallback ==
    /\ phase = "running"
    /\ phase' = "destroyed"
    /\ last' = Did("destroy", 0, <<>>)
    /\ NoRefresh
    /\ UNCHANGED <<auto_refresh_id, clock, build, fs, copies, ext, ops, settings,
                   directory, menu, posted, rename_win, timer>>

\* The main window is destroyed: destroy cancels the callback whose id is
\* recorded, and the callbacks of a destroyed window are deleted with it.
destroy ==
    /\ phase = "running"
    /\ phase' = "destroyed"
    /\ timer' = 0
    /\ last' = Did("destroy", 0, <<>>)
    /\ NoRefresh
    /\ UNCHANGED <<auto_refresh_id, clock, build, fs, copies, ext, ops, settings,
                   directory, menu, posted, rename_win>>

\* The Reload button: command=self.refresh_files.
Reload(ok) ==
    /\ phase = "running"
    /\ rename_win = <<>>
    /\ \E p \in Lists(directory, fs) :
         LET r == Refresh(directory, fs, ok, p)
         IN
           /\ Apply(r, FALSE)
           /\ clock' = ClockAfter(FALSE, TRUE)
           /\ last' = Did("reload", 0, RLog(r))
    /\ UNCHANGED <<auto_refresh_id, build, phase, fs, copies, ext, ops, settings, directory, menu,
                   posted, rename_win, timer>>

\* The Select Folder button; folder = "" when the picker is cancelled.
select_folder(folder, ok) ==
    /\ phase = "running"
    /\ rename_win = <<>>
    /\ IF folder = ""
       THEN /\ NoRefresh
            /\ UNCHANGED directory
            /\ last' = Did("select_folder", 0, <<"cancelled">>)
       ELSE \E p \in Lists(folder, fs) :
              LET r == Refresh(folder, fs, ok, p)
              IN  /\ directory' = folder
                  /\ Apply(r, TRUE)
                  /\ last' = Did("select_folder", 0, <<"picked">> \o RLog(r))
    /\ UNCHANGED <<auto_refresh_id, clock, build, phase, fs, copies, ext, ops, settings, menu, posted,
                   rename_win, timer>>

\* ------------------------------------------------------- clicks and hover

\* The row text with which a click or a hover on that row acknowledges a file.
ClickedName(text) == Strip(DropLast6(text))
PreIcons_HoveredName(text) == DropLast6(text)

\* Semi-Final on_left_click on row (0: below the rows). A click while self.menu
\* is set only closes that menu; otherwise it selects the row, clears the [NEW]
\* mark of the row and posts a new context menu.
on_left_click(row) ==
    /\ phase = "running"
    /\ build = "SemiFinal"
    /\ rename_win = <<>>
    /\ row \in 0..Len(tree)
    /\ IF menu
       THEN /\ menu' = FALSE
            /\ posted' = FALSE
            /\ last' = Did("on_left_click", row, <<"menu_closed">>)
            /\ UNCHANGED <<selection, new_files, tree>>
       ELSE IF row = 0
       THEN /\ last' = Did("on_left_click", row, <<>>)
            /\ UNCHANGED <<menu, posted, selection, new_files, tree>>
       ELSE /\ selection' = row
            /\ IF EndsWith(tree[row].text, NewTag)
               THEN /\ new_files' = new_files \ {ClickedName(tree[row].text)}
                    /\ tree' = [tree EXCEPT ![row] =
                                  [text |-> ClickedName(tree[row].text),
                                   tag |-> FALSE]]
               ELSE UNCHANGED <<new_files, tree>>
            /\ menu' = TRUE
            /\ posted' = TRUE
            /\ last' = Did("on_left_click", row,
                           IF EndsWith(tree[row].text, NewTag)
                           THEN <<"ack", "menu">> ELSE <<"menu">>)
    /\ UNCHANGED <<auto_refresh_id, clock, build, phase, fs, copies, ext, ops, settings, directory, files,
                   displayed_files, first_scan_done, rename_win, timer, hist>>

\* Pre-icons on_left_click: selects the row and posts a new menu; it does not
\* touch the [NEW] marks.
PreIcons_on_left_click(row) ==
    /\ phase = "running"
    /\ build = "PreIcons"
    /\ rename_win = <<>>
    /\ row \in 0..Len(tree)
    /\ IF row = 0
       THEN /\ posted' = FALSE
            /\ last' = Did("on_left_click", row, <<>>)
            /\ UNCHANGED <<menu, selection>>
       ELSE /\ selection' = row
            /\ menu' = TRUE
            /\ posted' = TRUE
            /\ last' = Did("on_left_click", row, <<"menu">>)
    /\ UNCHANGED <<auto_refresh_id, clock, build, phase, fs, copies, ext, ops, settings, directory, files,
                   tree, new_files, displayed_files, first_scan_done,
                   rename_win, timer, hist>>

\* Pre-icons on_tree_motion: the pointer moves over a cell of row.
on_tree_motion(row) ==
    /\ phase = "running"
    /\ build = "PreIcons"
    /\ rename_win = <<>>
    /\ row \in 1..Len(tree)
    /\ IF /\ EndsWith(tree[row].text, NewTag)
          /\ PreIcons_HoveredName(tree[row].text) \in new_files
       THEN /\ new_files' = new_files \ {PreIcons_HoveredName(tree[row].text)}
            /\ tree' = [tree EXCEPT ![row] =
                          [text |-> PreIcons_HoveredName(tree[row].text),
                           tag |-> FALSE]]
       ELSE UNCHANGED <<new_files, tree>>
    /\ last' = Did("on_tree_motion", row,
                   IF /\ EndsWith(tree[row].text, NewTag)
                      /\ PreIcons_HoveredName(tree[row].text) \in new_files
                   THEN <<"ack">> ELSE <<>>)
    /\ UNCHANGED <<auto_refresh_id, clock, build, phase, fs, copies, ext, ops, settings, directory, files,
                   selection, menu, posted, displayed_files, first_scan_done,
                   rename_win, timer, hist>>

\* The posted menu goes away without a command (Escape, a click elsewhere);
\* self.menu keeps the menu object.
menu_dismissed ==
    /\ phase = "running"
    /\ posted
    /\ posted' = FALSE
    /\ last' = Did("menu_dismissed", 0, <<>>)
    /\ UNCHANGED <<auto_refresh_id, clock, build, phase, fs, copies, ext, ops, settings, directory, files,
                   tree, selection, menu, new_files, displayed_files,
                   first_scan_done, rename_win, timer, hist>>

\* --------------------------------------------------- the context menu

\* get_selected_file: <<>> for None, <<file>> for self.files[idx]; an index
\* past the end of self.files raises IndexError.
SelectedRaises == selection > Len(files)

get_selected_file ==
    IF selection = 0 \/ SelectedRaises THEN <<>> ELSE <<files[selection]>>

\* File system helpers: os.remove, os.rename inside one folder.
Mtime(F, d, n) == (CHOOSE e \in F[d] : e.name = n).mtime

Remove(F, d, n) == [F EXCEPT ![d] = {e \in @ : e.name # n}]

Rename(F, d, n, m) ==
    IF n = m THEN F
    ELSE [F EXCEPT ![d] = {e \in @ : e.name \notin {n, m}}
                              \cup {File(m, Mtime(F, d, n))}]

\* A handler's effects outside the tracker: the file system, the copies, what
\* it logged, whether it closed the rename window, whether it went on to
\* refresh_files and whether an exception of that refresh is caught (and then
\* reported as a failed delete).
Outcome(F, C, log, close, refresh, caught) ==
    [fs |-> F, copies |-> C, log |-> log, close |-> close,
     refresh |-> refresh, caught |-> caught]

Finish(op, o, ok) ==
    /\ ops < MaxOps
    /\ ops' = ops + 1
    /\ fs' = o.fs
    /\ copies' = o.copies
    /\ rename_win' = IF o.close THEN <<>> ELSE rename_win
    /\ IF o.refresh
       THEN \E p \in Lists(directory, o.fs) :
              LET r == Refresh(directory, o.fs, ok, p)
              IN  /\ Apply(r, FALSE)
                  /\ last' = Did(op, 0,
                                 o.log \o RLog(r) \o
                                 (IF Raised(r) /\ o.caught
                                  THEN <<"error_delete">> ELSE <<>>))
       ELSE /\ NoRefresh
            /\ last' = Did(op, 0, o.log)

\* Edit: open the selected file with the default application; launched: the
\* launch succeeds. Nothing is caught and nothing is refreshed.
menu_edit_file(launched) ==
    /\ phase = "running"
    /\ posted
    /\ ops < MaxOps
    /\ ops' = ops + 1
    /\ posted' = FALSE
    /\ last' = Did("menu_edit_file", 0,
                   IF get_selected_file = <<>> THEN <<>>
                   ELSE IF launched THEN <<"open">> ELSE <<"open_failed">>)
    /\ NoRefresh
    /\ UNCHANGED <<auto_refresh_id, clock, build, phase, fs, copies, ext, settings, directory, menu,
                   rename_win, timer>>

\* Delete with os.remove and the refresh outside the test of the answer.
DeleteOutcome_DeletesUnasked(file, confirm, rm_ok) ==
    IF Exists(fs, file.dir, file.name) /\ rm_ok
    THEN Outcome(Remove(fs, file.dir, file.name), copies,
                 <<"ask_delete", IF confirm THEN "yes" ELSE "no", "remove">>,
                 FALSE, TRUE, TRUE)
    ELSE Outcome(fs, copies,
                 <<"ask_delete", IF confirm THEN "yes" ELSE "no",
                   "remove_failed", "error_delete">>,
                 FALSE, FALSE, TRUE)

\* Delete: confirm, os.remove, refresh_files; any exception of the two is
\* reported as a failed delete.
DeleteOutcome(file, confirm, rm_ok) ==
    IF ~confirm THEN Outcome(fs, copies, <<"ask_delete", "no">>, FALSE, FALSE, TRUE)
    ELSE IF Exists(fs, file.dir, file.name) /\ rm_ok
    THEN Outcome(Remove(fs, file.dir, file.name), copies,
                 <<"ask_delete", "yes", "remove">>, FALSE, TRUE, TRUE)
    ELSE Outcome(fs, copies,
                 <<"ask_delete", "yes", "remove_failed", "error_delete">>,
                 FALSE, FALSE, TRUE)

menu_delete_file(confirm, rm_ok, ok) ==
    /\ phase = "running"
    /\ posted
    /\ ~confirm => rm_ok
    /\ ~(confirm /\ rm_ok) => ok
    /\ posted' = FALSE
    /\ IF get_selected_file = <<>>
       THEN Finish("menu_delete_file", Outcome(fs, copies, <<>>, FALSE, FALSE, TRUE), ok)
       ELSE Finish("menu_delete_file",
                   DeleteOutcome(get_selected_file[1], confirm, rm_ok), ok)
    /\ UNCHANGED <<auto_refresh_id, clock, build, phase, ext, settings, directory, menu, timer>>

\* Process: open the "Rename Scan" window for the selected file.
menu_process_file ==
    /\ phase = "running"
    /\ posted
    /\ posted' = FALSE
    /\ rename_win' = get_selected_file
    /\ last' = Did("menu_process_file", 0, <<>>)
    /\ NoRefresh
    /\ UNCHANGED <<auto_refresh_id, clock, build, phase, fs, copies, ext, ops, settings, directory, menu,
                   timer>>

\* The user closes the "Rename Scan" window.
rename_win_closed ==
    /\ phase = "running"
    /\ rename_win # <<>>
    /\ rename_win' = <<>>
    /\ last' = Did("rename_win_closed", 0, <<>>)
    /\ NoRefresh
    /\ UNCHANGED <<auto_refresh_id, clock, build, phase, fs, copies, ext, ops, settings, directory, menu,
                   posted, timer>>

\* ------------------------------------------------- the "Rename Scan" window

\* What the user can leave in the entry: nothing, blanks, a name without the
\* extension, the name of the first file.
NameB == <<"b">>
EntryTexts == {<<>>, <<" ">>, NameB, NameA}

\* The folders a destination picker can return; "" when it is cancelled.
PickedDirs == {"", DestDir}

\* The new name: the entry stripped, with the original extension appended in
\* the Semi-Final build when the name does not end with it.
NewName(file, entry) ==
    IF EndsWith(Lower(Strip(entry)), Lower(SplitExt(file.name)))
    THEN Strip(entry) ELSE Strip(entry) \o SplitExt(file.name)

PreIcons_NewName(file, entry) == Strip(entry)

EffectiveName(file, entry) ==
    IF build = "SemiFinal" THEN NewName(file, entry)
    ELSE PreIcons_NewName(file, entry)

\* shutil.copy2(src, folder/name) succeeds when the source exists and the copy
\* itself does (cp_ok).
CanCopy(F, d, n, cp_ok) == Exists(F, d, n) /\ cp_ok

AddCopy(C, folder, n) == [C EXCEPT ![folder] = @ \cup {n}]

\* do_delete with a return after the report of a failed copy.
do_delete_outcome_StopsAfterFailedCopy(file, entry, want_copy, dest_dir, cp_ok, confirm, rm_ok) ==
    LET new_name == EffectiveName(file, entry)
        tried == want_copy /\ dest_dir # ""
        copied == tried /\ CanCopy(fs, file.dir, file.name, cp_ok)
        removed == confirm /\ Exists(fs, file.dir, file.name) /\ rm_ok
        log == <<"ask_copy">>
               \o (IF want_copy THEN <<"pick_dest">> ELSE <<>>)
               \o (IF ~tried THEN <<>> ELSE <<"copy">>)
               \o <<"close", "ask_delete">>
               \o (IF ~confirm THEN <<"no">>
                   ELSE IF removed THEN <<"yes", "remove">>
                   ELSE <<"yes", "remove_failed", "error_delete">>)
    IN  IF Strip(entry) = <<>>
        THEN Outcome(fs, copies, <<"warn_no_name">>, FALSE, FALSE, FALSE)
        ELSE IF tried /\ ~copied
        THEN Outcome(fs, copies,
                     <<"ask_copy", "pick_dest", "copy_failed", "error_copy">>,
                     FALSE, FALSE, TRUE)
        ELSE Outcome(IF removed THEN Remove(fs, file.dir, file.name) ELSE fs,
                     IF copied THEN AddCopy(copies, dest_dir, new_name) ELSE copies,
                     log, TRUE, removed, TRUE)

\* do_delete without the test of the entered name.
do_delete_outcome_AcceptsBlank(file, entry, want_copy, dest_dir, cp_ok, confirm, rm_ok) ==
    LET new_name == EffectiveName(file, entry)
        tried == want_copy /\ dest_dir # ""
        copied == tried /\ CanCopy(fs, file.dir, file.name, cp_ok)
        removed == confirm /\ Exists(fs, file.dir, file.name) /\ rm_ok
        log == <<"ask_copy">>
               \o (IF want_copy THEN <<"pick_dest">> ELSE <<>>)
               \o (IF ~tried THEN <<>>
                   ELSE IF copied THEN <<"copy">>
                   ELSE <<"copy_failed", "error_copy">>)
               \o <<"close", "ask_delete">>
               \o (IF ~confirm THEN <<"no">>
                   ELSE IF removed THEN <<"yes", "remove">>
                   ELSE <<"yes", "remove_failed", "error_delete">>)
    IN  Outcome(IF removed THEN Remove(fs, file.dir, file.name) ELSE fs,
                IF copied THEN AddCopy(copies, dest_dir, new_name) ELSE copies,
                log, TRUE, removed, TRUE)

\* Delete Scan: optional copy, close the window, confirm, delete, refresh.
do_delete_outcome(file, entry, want_copy, dest_dir, cp_ok, confirm, rm_ok) ==
    LET new_name == EffectiveName(file, entry)
        tried == want_copy /\ dest_dir # ""
        copied == tried /\ CanCopy(fs, file.dir, file.name, cp_ok)
        removed == confirm /\ Exists(fs, file.dir, file.name) /\ rm_ok
        log == <<"ask_copy">>
               \o (IF want_copy THEN <<"pick_dest">> ELSE <<>>)
               \o (IF ~tried THEN <<>>
                   ELSE IF copied THEN <<"copy">>
                   ELSE <<"copy_failed", "error_copy">>)
               \o <<"close", "ask_delete">>
               \o (IF ~confirm THEN <<"no">>
                   ELSE IF removed THEN <<"yes", "remove">>
                   ELSE <<"yes", "remove_failed", "error_delete">>)
    IN  IF Strip(entry) = <<>>
        THEN Outcome(fs, copies, <<"warn_no_name">>, FALSE, FALSE, FALSE)
        ELSE Outcome(IF removed THEN Remove(fs, file.dir, file.name) ELSE fs,
                     IF copied THEN AddCopy(copies, dest_dir, new_name) ELSE copies,
                     log, TRUE, removed, TRUE)

do_delete(entry, want_copy, dest_dir, cp_ok, confirm, rm_ok, ok) ==
    /\ phase = "running"
    /\ rename_win # <<>>
    /\ ~want_copy => dest_dir = ""
    /\ dest_dir = "" => cp_ok
    /\ ~confirm => rm_ok
    /\ ~(confirm /\ rm_ok) => ok
    /\ Finish("do_delete",
              do_delete_outcome(rename_win[1], entry, want_copy, dest_dir,
                                cp_ok, confirm, rm_ok), ok)
    /\ UNCHANGED <<auto_refresh_id, clock, build, phase, ext, settings, directory, menu, posted, timer>>

\* do_retain with the rename taken back when the copy fails.
do_retain_outcome_UndoesRename(file, entry, rn_ok, dest_dir, cp_ok) ==
    LET new_name == EffectiveName(file, entry)
        renamed == Exists(fs, file.dir, file.name) /\ rn_ok
        F == Rename(fs, file.dir, file.name, new_name)
    IN  IF Strip(entry) = <<>>
        THEN Outcome(fs, copies, <<"warn_no_name">>, FALSE, FALSE, FALSE)
        ELSE IF ~renamed
        THEN Outcome(fs, copies, <<"rename_failed", "error_rename">>,
                     FALSE, FALSE, FALSE)
        ELSE IF dest_dir = ""
        THEN Outcome(F, copies, <<"rename", "pick_dest">>, FALSE, FALSE, FALSE)
        ELSE IF ~cp_ok
        THEN Outcome(fs, copies,
                     <<"rename", "pick_dest", "copy_failed", "error_copy">>,
                     FALSE, FALSE, FALSE)
        ELSE Outcome(F, AddCopy(copies, dest_dir, new_name),
                     <<"rename", "pick_dest", "copy", "close">>,
                     TRUE, TRUE, FALSE)

\* do_retain as a move: the renamed file is removed after the copy.
do_retain_outcome_MovesSource(file, entry, rn_ok, dest_dir, cp_ok) ==
    LET new_name == EffectiveName(file, entry)
        renamed == Exists(fs, file.dir, file.name) /\ rn_ok
        F == Rename(fs, file.dir, file.name, new_name)
    IN  IF Strip(entry) = <<>>
        THEN Outcome(fs, copies, <<"warn_no_name">>, FALSE, FALSE, FALSE)
        ELSE IF ~renamed
        THEN Outcome(fs, copies, <<"rename_failed", "error_rename">>,
                     FALSE, FALSE, FALSE)
        ELSE IF dest_dir = ""
        THEN Outcome(F, copies, <<"rename", "pick_dest">>, FALSE, FALSE, FALSE)
        ELSE IF ~cp_ok
        THEN Outcome(F, copies,
                     <<"rename", "pick_dest", "copy_failed", "error_copy">>,
                     FALSE, FALSE, FALSE)
        ELSE Outcome(Remove(F, file.dir, new_name),
                     AddCopy(copies, dest_dir, new_name),
                     <<"rename", "pick_dest", "copy", "close">>,
                     TRUE, TRUE, FALSE)

\* Retain Scan: rename in the scan folder, pick the destination, copy, close
\* the window, refresh. rn_ok: os.rename itself succeeds (it may replace or
\* refuse an existing file of the new name, depending on the platform).
do_retain_outcome(file, entry, rn_ok, dest_dir, cp_ok) ==
    LET new_name == EffectiveName(file, entry)
        renamed == Exists(fs, file.dir, file.name) /\ rn_ok
        F == Rename(fs, file.dir, file.name, new_name)
    IN  IF Strip(entry) = <<>>
        THEN Outcome(fs, copies, <<"warn_no_name">>, FALSE, FALSE, FALSE)
        ELSE IF ~renamed
        THEN Outcome(fs, copies, <<"rename_failed", "error_rename">>,
                     FALSE, FALSE, FALSE)
        ELSE IF dest_dir = ""
        THEN Outcome(F, copies, <<"rename", "pick_dest">>, FALSE, FALSE, FALSE)
        ELSE IF ~cp_ok
        THEN Outcome(F, copies,
                     <<"rename", "pick_dest", "copy_failed", "error_copy">>,
                     FALSE, FALSE, FALSE)
        ELSE Outcome(F, AddCopy(copies, dest_dir, new_name),
                     <<"rename", "pick_dest", "copy", "close">>,
                     TRUE, TRUE, FALSE)

do_retain(entry, rn_ok, dest_dir, cp_ok, ok) ==
    /\ phase = "running"
    /\ rename_win # <<>>
    /\ ~rn_ok => dest_dir = ""
    /\ dest_dir = "" => cp_ok
    /\ ~cp_ok => ok
    /\ Finish("do_retain",
              do_retain_outcome(rename_win[1], entry, rn_ok, dest_dir, cp_ok), ok)
    /\ UNCHANGED <<auto_refresh_id, clock, build, phase, ext, settings, directory, menu, posted, timer>>

\* storage_copies without the return after a failed copy to the storage
\* folder.
storage_copies_DeletesAfterFailedStorageCopy(file, new_name, dest_dir, storage_dir, pre, cp1_ok, cp2_ok, rm_ok) ==
    LET src == Exists(fs, file.dir, file.name)
        C1 == AddCopy(copies, dest_dir, new_name)
    IN  IF ~(src /\ cp1_ok)
        THEN Outcome(fs, copies, pre \o <<"copy_main_failed", "error_copy_main">>,
                     FALSE, FALSE, FALSE)
        ELSE IF storage_dir = ""
        THEN Outcome(fs, C1, pre \o <<"copy_main", "pick_storage">>,
                     FALSE, FALSE, FALSE)
        ELSE IF ~cp2_ok
        THEN Outcome(Remove(fs, file.dir, file.name), C1,
                     pre \o <<"copy_main", "copy_storage_failed",
                              "error_copy_storage", "remove", "close">>,
                     TRUE, TRUE, FALSE)
        ELSE IF ~rm_ok
        THEN Outcome(fs, AddCopy(C1, storage_dir, new_name),
                     pre \o <<"copy_main", "copy_storage", "remove_failed",
                              "error_delete", "close">>,
                     TRUE, TRUE, FALSE)
        ELSE Outcome(Remove(fs, file.dir, file.name),
                     AddCopy(C1, storage_dir, new_name),
                     pre \o <<"copy_main", "copy_storage", "remove", "close">>,
                     TRUE, TRUE, FALSE)

\* The copies and the delete that end Retain Scan in storage, once both
\* folders are known.
storage_copies(file, new_name, dest_dir, storage_dir, pre, cp1_ok, cp2_ok, rm_ok) ==
    LET src == Exists(fs, file.dir, file.name)
        C1 == AddCopy(copies, dest_dir, new_name)
    IN  IF ~(src /\ cp1_ok)
        THEN Outcome(fs, copies, pre \o <<"copy_main_failed", "error_copy_main">>,
                     FALSE, FALSE, FALSE)
        ELSE IF storage_dir = ""
        THEN Outcome(fs, C1, pre \o <<"copy_main", "pick_storage">>,
                     FALSE, FALSE, FALSE)
        ELSE IF ~cp2_ok
        THEN Outcome(fs, C1,
                     pre \o <<"copy_main", "copy_storage_failed", "error_copy_storage">>,
                     FALSE, FALSE, FALSE)
        ELSE IF ~rm_ok
        THEN Outcome(fs, AddCopy(C1, storage_dir, new_name),
                     pre \o <<"copy_main", "copy_storage", "remove_failed",
                              "error_delete", "close">>,
                     TRUE, TRUE, FALSE)
        ELSE Outcome(Remove(fs, file.dir, file.name),
                     AddCopy(C1, storage_dir, new_name),
                     pre \o <<"copy_main", "copy_storage", "remove", "close">>,
                     TRUE, TRUE, FALSE)

\* Semi-Final Retain Scan in storage: pick the main destination, then take
\* the storage folder from the settings.
do_storage_outcome(file, entry, dest_dir, cp1_ok, cp2_ok, rm_ok) ==
    IF Strip(entry) = <<>>
    THEN Outcome(fs, copies, <<"warn_no_name">>, FALSE, FALSE, FALSE)
    ELSE IF dest_dir = ""
    THEN Outcome(fs, copies, <<"pick_dest">>, FALSE, FALSE, FALSE)
    ELSE IF settings.default_storage = ""
    THEN Outcome(fs, copies, <<"pick_dest", "error_no_storage">>,
                 FALSE, FALSE, FALSE)
    ELSE storage_copies(file, NewName(file, entry), dest_dir,
                        settings.default_storage, <<"pick_dest">>,
                        cp1_ok, cp2_ok, rm_ok)

\* Pre-icons Retain Scan in storage: the storage folder is picked after the
\* copy to the main destination (storage_dir = "" when that picker is
\* cancelled); the settings are not read.
PreIcons_do_storage_outcome(file, entry, dest_dir, storage_dir, cp1_ok, cp2_ok, rm_ok) ==
    IF Strip(entry) = <<>>
    THEN Outcome(fs, copies, <<"warn_no_name">>, FALSE, FALSE, FALSE)
    ELSE IF dest_dir = ""
    THEN Outcome(fs, copies, <<"pick_dest">>, FALSE, FALSE, FALSE)
    ELSE storage_copies(file, PreIcons_NewName(file, entry), dest_dir,
                        storage_dir, <<"pick_dest">>, cp1_ok, cp2_ok, rm_ok)

do_storage(entry, dest_dir, storage_dir, cp1_ok, cp2_ok, rm_ok, ok) ==
    /\ phase = "running"
    /\ rename_win # <<>>
    /\ dest_dir = "" => cp1_ok /\ storage_dir = ""
    /\ ~cp1_ok => cp2_ok /\ storage_dir = ""
    /\ ~cp2_ok => rm_ok
    /\ ~rm_ok => ok
    /\ IF build = "SemiFinal"
       THEN /\ storage_dir = ""
            /\ Finish("do_storage",
                      do_storage_outcome(rename_win[1], entry, dest_dir,
                                         cp1_ok, cp2_ok, rm_ok), ok)
       ELSE Finish("do_storage",
                   PreIcons_do_storage_outcome(rename_win[1], entry, dest_dir,
                                               storage_dir, cp1_ok, cp2_ok,
                                               rm_ok), ok)
    /\ UNCHANGED <<auto_refresh_id, clock, build, phase, ext, settings, directory, menu, posted, timer>>

\* ------------------------------------------------------------ the settings

\* load_settings returns these when it does not return the file's document.
Defaults ==
    [default_folder |-> "", default_storage |-> "", default_dest_start |-> ""]

\* A JSON document that is no object (an array, null, a number, a string):
\* json.load returns a value that has no get method.
JsonArray == [json |-> "array"]
JsonNull == [json |-> "null"]

\* The value is a dict: self.settings.get(key) can be evaluated.
IsDict(v) == "json" \notin DOMAIN v

\* scanner_settings.json when the window is built: absent, present without
\* being a JSON document (or not readable), or present with a document.
ConfigFiles ==
    {[exists |-> FALSE], [exists |-> TRUE, valid |-> FALSE]}
    \cup {[exists |-> TRUE, valid |-> TRUE, value |-> v] :
            v \in {Defaults, JsonArray, JsonNull,
                   [default_folder |-> "A", default_storage |-> ""],
                   [default_folder |-> "A", default_storage |-> StoreDir,
                    default_dest_start |-> DestDir]}}

\* load_settings: the document of an existing file that json.load accepts,
\* whatever it is; the defaults for a missing file and after any exception.
load_settings(config) ==
    IF config.exists /\ config.valid THEN config.value ELSE Defaults

\* __init__ up to self.settings = self.load_settings().
Startup_load_settings(config) ==
    /\ phase = "unbuilt"
    /\ phase' = "created"
    /\ settings' = load_settings(config)
    /\ last' = Did("load_settings", 0,
                   IF ~config.exists THEN <<"missing">>
                   ELSE IF ~config.valid THEN <<"malformed">>
                   ELSE <<"document">>)
    /\ NoRefresh
    /\ UNCHANGED <<auto_refresh_id, clock, build, fs, copies, ext, ops, directory, menu, posted,
                   rename_win, timer>>

\* __init__ reads self.settings.get("default_folder") from a value that is no
\* dict: the AttributeError is caught by __init__, which reports a startup
\* error and destroys the window.
Startup_settings_unreadable ==
    /\ phase = "created"
    /\ ~IsDict(settings)
    /\ phase' = "destroyed"
    /\ last' = Did("__init__", 0, <<"startup_error">>)
    /\ NoRefresh
    /\ UNCHANGED <<auto_refresh_id, clock, build, fs, copies, ext, ops, settings, directory, menu,
                   posted, rename_win, timer>>

\* --------------------------------------------------------------------- Next

\* The changes made by other processes.
Environment ==
    \/ \E n \in ArrivalNames, t \in 1..MaxTime : ExtWrite("A", n, t)
    \/ \E n \in ArrivalNames : ExtRemove("A", n)

\* Construction, the timer, Reload and Select Folder.
Refreshing ==
    \/ \E folder \in {""} \cup ScanDirs, ok \in BOOLEAN : Startup_folder(folder, ok)
    \/ \E ok \in BOOLEAN : Startup_auto_refresh(ok)
    \/ \E ok \in BOOLEAN : auto_refresh(ok)
    \/ \E ok \in BOOLEAN : Reload(ok)
    \/ \E folder \in {""} \cup ScanDirs, ok \in BOOLEAN : select_folder(folder, ok)

\* Clicks on the list and pointer motion over it.
Pointing ==
    \/ \E row \in 0..Len(tree) : on_left_click(row)
    \/ \E row \in 0..Len(tree) : PreIcons_on_left_click(row)
    \/ \E row \in 1..Len(tree) : on_tree_motion(row)
    \/ menu_dismissed

\* The refresh cycle and the new-arrival tracker: every operation of the
\* window except the context menu's commands.
NextTracker == Environment \/ Refreshing \/ Pointing

\* No folder is configured: the folder is picked at startup; folder A is
\* empty and fills while it is watched, folder B holds a file.
InitTracker ==
    /\ Init
    /\ settings = [default_folder |-> "", default_storage |-> ""]
    /\ fs["A"] = {}
    /\ fs["B"] # {}
    /\ ~clock.run

SpecTracker == InitTracker /\ [][NextTracker]_vars

\* The context menu's commands and the "Rename Scan" window.
Disposing ==
    \/ \E launched \in BOOLEAN : menu_edit_file(launched)
    \/ \E confirm, rm_ok, ok \in BOOLEAN : menu_delete_file(confirm, rm_ok, ok)
    \/ menu_process_file
    \/ rename_win_closed
    \/ \E entry \in EntryTexts, dest_dir \in PickedDirs,
          want_copy, cp_ok, confirm, rm_ok, ok \in BOOLEAN :
            do_delete(entry, want_copy, dest_dir, cp_ok, confirm, rm_ok, ok)
    \/ \E entry \in EntryTexts, dest_dir \in PickedDirs, rn_ok, cp_ok, ok \in BOOLEAN :
            do_retain(entry, rn_ok, dest_dir, cp_ok, ok)
    \/ \E entry \in EntryTexts, dest_dir \in PickedDirs, storage_dir \in {"", StoreDir},
          cp1_ok, cp2_ok, rm_ok, ok \in BOOLEAN :
            do_storage(entry, dest_dir, storage_dir, cp1_ok, cp2_ok, rm_ok, ok)

\* Construction and the timer.
Ticking ==
    \/ \E folder \in {""} \cup ScanDirs, ok \in BOOLEAN : Startup_folder(folder, ok)
    \/ \E ok \in BOOLEAN : Startup_auto_refresh(ok)
    \/ \E ok \in BOOLEAN : auto_refresh(ok)

\* The disposition workflows on a folder that no other process changes.
NextWorkflow == Ticking \/ Pointing \/ Disposing

\* The window opens on folder A, which holds two scans.
InitWorkflow ==
    /\ Init
    /\ settings.default_folder = "A"
    /\ fs = [A |-> {File(NameA, 1), File(NameSpA, 1)}, B |-> {}]
    /\ ~clock.run

SpecWorkflow == InitWorkflow /\ [][NextWorkflow]_vars

\* The names of the natural-order example, and a name made of a digit that is
\* not an ASCII digit.
File1 == <<"f", "i", "l", "e", "1">>
File2 == <<"f", "i", "l", "e", "2">>
File10 == <<"f", "i", "l", "e", "1", "0">>
SortNames == {File1, File2, File10, <<AR3>>}

\* Folder A holds any of these names with any times, and is the default folder.
InitSort ==
    /\ Init
    /\ settings = [default_folder |-> "A", default_storage |-> ""]
    /\ fs = [A |-> {}, B |-> {}]
    /\ ~clock.run

\* Files are put into folder A before the window is built.
Prepare(n, t) ==
    /\ phase = "created"
    /\ ~Exists(fs, "A", n)
    /\ fs' = [fs EXCEPT !["A"] = @ \cup {File(n, t)}]
    /\ last' = Did("other_process", 0, <<>>)
    /\ UNCHANGED <<auto_refresh_id, clock, build, phase, copies, ext, ops, settings, directory, files,
                   tree, selection, menu, posted, new_files, displayed_files,
                   first_scan_done, rename_win, timer, hist>>

NextSort ==
    \/ \E n \in SortNames, t \in 1..MaxTime : Prepare(n, t)
    \/ Ticking

\* Scanning and sorting a folder of files with equal and different times.
SpecSort == InitSort /\ [][NextSort]_vars

\* Folder A, holding two files, is the default folder.
InitScan ==
    /\ Init
    /\ settings = [default_folder |-> "A", default_storage |-> ""]
    /\ fs = [A |-> {File(NameA, 1), File(NameSpA, 1)}, B |-> {}]
    /\ ~clock.run

NextScan ==
    \/ Ticking
    \/ Environment
    \/ \E n \in ArrivalNames : auto_refresh_racing(n)

\* Scans of a folder that other processes change, also while it is scanned.
SpecScan == InitScan /\ [][NextScan]_vars

\* Folder A, holding one file, is the default folder, and seconds are counted.
InitTimer ==
    /\ Init
    /\ settings = [default_folder |-> "A", default_storage |-> ""]
    /\ fs = [A |-> {File(NameA, 1)}, B |-> {}]
    /\ clock.run

NextTimer ==
    \/ Ticking
    \/ \E ok \in BOOLEAN : Reload(ok)
    \/ Second
    \/ Environment

\* The timer and the Reload button in time.
SpecTimer == InitTimer /\ [][NextTimer]_vars

\* The window is about to be built: the settings are not loaded yet.
InitSettings ==
    /\ build \in {"SemiFinal", "PreIcons"}
    /\ phase = "unbuilt"
    /\ fs \in InitFolders
    /\ copies = [d \in {DestDir, StoreDir} |-> {}]
    /\ ext = 0
    /\ ops = 0
    /\ settings = Defaults
    /\ directory = ""
    /\ files = <<>>
    /\ tree = <<>>
    /\ selection = 0
    /\ menu = FALSE
    /\ posted = FALSE
    /\ new_files = {}
    /\ displayed_files = {}
    /\ first_scan_done = FALSE
    /\ rename_win = <<>>
    /\ timer = 0
    /\ hist = [scans |-> 0, snap |-> {}, sel |-> "none"]
    /\ last = Did("init", 0, <<>>)
    /\ clock = [run |-> FALSE, due |-> 0, since |-> Period]
    /\ auto_refresh_id = "none"

NextSettings ==
    \/ \E config \in ConfigFiles : Startup_load_settings(config)
    \/ Startup_settings_unreadable
    \/ IsDict(settings) /\ Ticking
    \/ Pointing

\* Construction from any settings file, and the window it leaves.
SpecSettings == InitSettings /\ [][NextSettings]_vars

\* The disposition workflows on a folder from which another process takes
\* files away while their records are on screen.
NextStale ==
    \/ NextWorkflow
    \/ \E n \in ArrivalNames : ExtRemove("A", n)

SpecStale == InitWorkflow /\ [][NextStale]_vars

\* Scans arrive in the empty folder A under the names of the natural-order
\* example while the window lists it and the user works on the list.
NextRender ==
    \/ Ticking
    \/ \E n \in SortNames, t \in 1..MaxTime : ExtWrite("A", n, t)
    \/ Pointing
    \/ menu_process_file
    \/ rename_win_closed

SpecRender == InitSort /\ [][NextRender]_vars

\* The timer and the Reload button in time, until the window is closed.
NextClose ==
    \/ NextTimer
    \/ destroy

SpecClose == InitTimer /\ [][NextClose]_vars

\* ------------------------------------------------------------------- claims

\* The event e is in the log; e1 is in it before e2.
In(e, log) == \E i \in 1..Len(log) : log[i] = e

Before(e1, e2, log) ==
    \E i, j \in 1..Len(log) : i < j /\ log[i] = e1 /\ log[j] = e2

\* No row of the list is rendered as new.
NoRowMarked ==
    \A i \in 1..Len(tree) : ~tree[i].tag /\ ~EndsWith(tree[i].text, NewTag)

\* The step is a refresh that completed a scan.
ScanCompletes == In("refresh", last'.log)

\* The step is a click or a pointer motion that reached the code of a row.
RowReached ==
    /\ last'.row >= 1
    /\ \/ last'.op = "on_left_click" /\ build = "SemiFinal" /\ In("menu", last'.log)
       \/ last'.op = "on_tree_motion"

\* C1: while only the first scan after construction has completed, no name is
\* flagged, no row is rendered [NEW] and displayed_files is the name set of
\* that scan.
C1_FirstScanFlagsNothing ==
    hist.scans = 1 =>
        /\ new_files = {}
        /\ NoRowMarked
        /\ displayed_files = hist.snap

\* C2: in the Semi-Final build, while the folder selected last has been scanned
\* once, no name is flagged and no row is rendered [NEW].
C2_FirstScanOfFolderFlagsNothing ==
    build = "SemiFinal" /\ hist.sel = "first" => new_files = {} /\ NoRowMarked

\* C3: a scan after the first flags every name it holds that the scan before
\* it did not hold, every refresh renders [NEW] the flagged names it lists, and
\* a flagged name stays flagged until the user acknowledges the row of that
\* name.
C3_NewNameStaysFlagged ==
    [][/\ ScanCompletes /\ hist.scans >= 1 =>
            (hist'.snap \ hist.snap) \subseteq new_files'
       /\ ScanCompletes =>
            \A i \in 1..Len(files') :
                files'[i].name \in new_files' =>
                    tree'[i] = [text |-> files'[i].name \o NewTag, tag |-> TRUE]
       /\ \A n \in new_files \ new_files' :
            RowReached /\ files[last'.row].name = n]_vars

C5_AcknowledgeRemovesThatName ==
    [][RowReached =>
          /\ new_files' = new_files \ {files[last'.row].name}
          /\ displayed_files' = displayed_files
          /\ files' = files
          /\ fs' = fs]_vars

\* C6: in the Semi-Final build a left click on a row rendered [NEW] takes the
\* row's name out of new_files and the mark off the row, whatever menu was
\* opened before (stated for names without blanks around them; the others are
\* the case of C5).
C6_ClickClearsFlag ==
    [][/\ build = "SemiFinal"
       /\ last'.op = "on_left_click"
       /\ last'.row >= 1
       /\ tree[last'.row].tag
       /\ files[last'.row].name = Strip(files[last'.row].name)
       => /\ files[last'.row].name \notin new_files'
          /\ ~tree'[last'.row].tag]_vars

\* C7: the sort never fails, and self.files is ordered by time, newest first,
\* files of equal time by the natural order of their names.
C7_ListIsSorted ==
    /\ ~In("sort_raised", last.log)
    /\ \A i, j \in 1..Len(files) :
         i < j => SortKeyCmp(files[i], files[j]) \in {"lt", "eq"}

\* C8: Retain Scan in storage with a name given and an empty default_storage
\* changes no folder and reports the missing setting, whatever the destination
\* picker returns.
C8_NoStorageConfigured ==
    [][/\ last'.op = "do_storage"
       /\ settings.default_storage = ""
       /\ ~In("warn_no_name", last'.log)
       => /\ fs' = fs
          /\ copies' = copies
          /\ In("error_no_storage", last'.log)]_vars

\* C9: Retain Scan in storage deletes the original only after both copies
\* succeeded; when a copy fails that copy is reported, no deletion is tried and
\* the original stays where it is.
C9_DeleteOnlyAfterBothCopies ==
    [][last'.op = "do_storage" =>
          LET log == last'.log
              file == rename_win[1]
              tried == In("remove", log) \/ In("remove_failed", log)
          IN  /\ tried \/ fs' # fs =>
                    /\ In("copy_main", log) /\ In("copy_storage", log)
                    /\ copies'[DestDir] \cap copies'[StoreDir] # {}
              /\ In("copy_main_failed", log) =>
                    In("error_copy_main", log) /\ ~tried /\ fs' = fs
              /\ In("copy_storage_failed", log) =>
                    In("error_copy_storage", log) /\ ~tried /\ fs' = fs
              /\ fs' # fs =>
                    /\ In("remove", log)
                    /\ fs' = Remove(fs, file.dir, file.name)]_vars

\* C9 witness: the copy to the main destination succeeded, the copy to the
\* storage folder failed, and the original is still in the scan folder.
C9_Witness ==
    /\ last.op = "do_storage"
    /\ In("copy_main", last.log)
    /\ In("copy_storage_failed", last.log)
    /\ rename_win # <<>>
    /\ Exists(fs, rename_win[1].dir, rename_win[1].name)
    /\ copies[DestDir] # {}

\* C10: Delete Scan with a name given reports a failed copy and still asks
\* for the confirmation of the delete, deletes when the user confirms, and
\* reports a failed delete as such.
C10_DeleteAfterCopyFailure ==
    [][last'.op = "do_delete" /\ ~In("warn_no_name", last'.log) =>
          LET log == last'.log
              file == rename_win[1]
              there == Exists(fs, file.dir, file.name)
          IN  /\ In("ask_delete", log)
              /\ In("copy_failed", log) => Before("error_copy", "ask_delete", log)
              /\ In("yes", log) => In("remove", log) \/ In("remove_failed", log)
              /\ In("remove", log) => fs' = Remove(fs, file.dir, file.name) /\ there
              /\ In("remove_failed", log) => In("error_delete", log) /\ fs' = fs
              /\ In("no", log) => fs' = fs]_vars

\* C10 witness: the copy failed and the file was deleted all the same.
C10_Witness ==
    /\ last.op = "do_delete"
    /\ In("copy_failed", last.log)
    /\ In("error_copy", last.log)
    /\ In("remove", last.log)
    /\ Cardinality(fs["A"]) = 1

\* The step called refresh_files on a selected folder.
RefreshCalled ==
    \/ In("refresh", last'.log)
    \/ In("scan_raised", last'.log)
    \/ In("sort_raised", last'.log)

\* C11: Delete Scan and the context menu's Delete change the scanned folders
\* only after the answer yes to the delete confirmation; after the answer no
\* the folders are as they were and refresh_files is not called.
C11_DeleteOnlyOnYes ==
    [][last'.op \in {"do_delete", "menu_delete_file"} =>
          /\ fs' # fs => Before("ask_delete", "yes", last'.log)
          /\ In("no", last'.log) =>
                /\ fs' = fs
                /\ ~RefreshCalled
                /\ files' = files /\ tree' = tree /\ hist' = hist]_vars

\* C11 witness: Delete Scan was declined at the confirmation; both files are
\* still in the folder.
C11_Witness ==
    /\ last.op = "do_delete"
    /\ In("no", last.log)
    /\ rename_win = <<>>
    /\ Cardinality(fs["A"]) = 2

\* The names the file of the "Rename Scan" window can be given.
GivenNames(file) ==
    {EffectiveName(file, entry) : entry \in {e \in EntryTexts : Strip(e) # <<>>}}

\* C12: Retain Scan renames, then asks for the destination, then copies, and
\* stops at the first step that fails: after a failed rename there is no
\* prompt and no copy and the folders are as they were; after a failed copy the
\* source is in its folder under the new name and no copy was added.
C12_RetainStopsAtFirstFailure ==
    [][last'.op = "do_retain" /\ ~In("warn_no_name", last'.log) =>
          LET log == last'.log
              file == rename_win[1]
          IN  /\ In("pick_dest", log) => Before("rename", "pick_dest", log)
              /\ In("copy", log) => Before("pick_dest", "copy", log)
              /\ In("copy_failed", log) => Before("pick_dest", "copy_failed", log)
              /\ In("rename_failed", log) =>
                    /\ In("error_rename", log)
                    /\ ~In("pick_dest", log)
                    /\ ~In("copy", log) /\ ~In("copy_failed", log)
                    /\ fs' = fs /\ copies' = copies
              /\ In("copy_failed", log) =>
                    /\ In("error_copy", log)
                    /\ copies' = copies
                    /\ \E n \in GivenNames(file) :
                         /\ fs' = Rename(fs, file.dir, file.name, n)
                         /\ Exists(fs', file.dir, n)]_vars

\* C12 witness: the rename succeeded and the copy failed; the source has left
\* its old name and the destination holds nothing.
C12_Witness ==
    /\ last.op = "do_retain"
    /\ In("rename", last.log)
    /\ In("copy_failed", last.log)
    /\ copies[DestDir] = {}
    /\ rename_win # <<>>
    /\ ~Exists(fs, rename_win[1].dir, rename_win[1].name)

\* C13: after a successful Retain Scan with the new name n the source folder
\* holds the file under n with its time, and not under the old name when n
\* differs, nothing else in the folder has changed, and the destination holds
\* a copy named n.
C13_RetainKeepsSource ==
    [][last'.op = "do_retain" /\ In("copy", last'.log) =>
          LET file == rename_win[1]
          IN  \E n \in GivenNames(file) :
                /\ File(n, Mtime(fs, file.dir, file.name)) \in fs'[file.dir]
                /\ n # file.name => ~Exists(fs', file.dir, file.name)
                /\ \A e \in fs[file.dir] :
                     e.name \notin {n, file.name} => e \in fs'[file.dir]
                /\ copies' = AddCopy(copies, DestDir, n)]_vars

\* C13 witness: a Retain Scan under another name has succeeded: the folder
\* still holds two files and the destination holds the copy.
C13_Witness ==
    /\ last.op = "do_retain"
    /\ In("copy", last.log)
    /\ Cardinality(fs["A"]) = 2
    /\ copies[DestDir] # {}
    /\ copies[DestDir] \cap {e.name : e \in fs["A"]} # {}
    /\ ~Exists(fs, "A", NameA) \/ ~Exists(fs, "A", NameSpA)

\* The step is a disposition action that did what it is for.
Succeeded ==
    \/ last'.op = "menu_edit_file" /\ In("open", last'.log)
    \/ last'.op = "do_delete" /\ In("remove", last'.log)
    \/ last'.op = "do_retain" /\ In("copy", last'.log)
    \/ last'.op = "do_storage" /\ In("remove", last'.log)

\* C14: a disposition action (Open, Delete Scan, Retain Scan, Retain Scan in
\* storage) that succeeds calls refresh_files before it returns.
C14_SuccessRefreshes ==
    [][Succeeded => RefreshCalled]_vars

\* C15: Open changes no folder and nothing of the tracker, and a launch that
\* fails is reported to the user.
C15_OpenReportsFailure ==
    [][last'.op = "menu_edit_file" =>
          /\ fs' = fs /\ copies' = copies
          /\ files' = files /\ tree' = tree
          /\ new_files' = new_files /\ displayed_files' = displayed_files
          /\ first_scan_done' = first_scan_done
          /\ In("open_failed", last'.log) => In("error_open", last'.log)]_vars

\* C16: while no folder is selected, a timer tick and a Reload scan nothing
\* and leave self.files, the rows, displayed_files, new_files and
\* first_scan_done as they are, and a tick leaves a next tick scheduled.
C16_NoFolderNoScan ==
    [][directory = "" /\ last'.op \in {"auto_refresh", "reload"} =>
          /\ ~RefreshCalled
          /\ hist' = hist
          /\ files' = files /\ tree' = tree
          /\ displayed_files' = displayed_files /\ new_files' = new_files
          /\ first_scan_done' = first_scan_done
          /\ last'.op = "auto_refresh" => timer' = 1
          /\ last'.op = "reload" => timer' = timer]_vars

\* C16 witness: the window runs with no folder selected, a tick has just run
\* and the next one is scheduled.
C16_Witness ==
    /\ phase = "running"
    /\ directory = ""
    /\ last.op = "auto_refresh"
    /\ hist.scans = 0
    /\ timer = 1

\* C17: a Reload puts the next timer tick a full period after itself, and no
\* timer tick runs less than a period after a Reload.
C17_ReloadResetsTimer ==
    [][/\ last'.op = "reload" /\ In("refresh", last'.log) => clock'.due = Period
       /\ last'.op = "auto_refresh" => clock.since = Period]_vars

\* C18: after a timer tick whose scan failed, a next tick is scheduled.
C18_FailedTickReschedules ==
    [][/\ phase = "running"
       /\ last'.op = "auto_refresh"
       /\ In("scan_raised", last'.log)
       => timer' >= 1]_vars

\* C19: a refresh of the running window whose scan of the folder fails while
\* files are listed leaves an empty file list and no rows, and reports the
\* error to the user.
C19_FailedScanShowsNoFiles ==
    [][phase = "running" /\ files # <<>> /\ In("scan_raised", last'.log) =>
          /\ files' = <<>>
          /\ tree' = <<>>
          /\ In("error_scan", last'.log)]_vars

\* C20: a scan during which the metadata of one entry cannot be read (the
\* file was removed after it was listed) raises nothing and lists every other
\* file of the folder.
C20_UnreadableEntrySkipped ==
    [][In("stat_failed", last'.log) =>
          /\ ~In("scan_raised", last'.log)
          /\ Names(files') = {e.name : e \in fs'[directory]}]_vars

\* C21: load_settings yields the all-empty defaults when the settings file is
\* missing and when it is malformed, and whatever the file holds it yields a
\* record on which the three keys can be read, so that the construction does
\* not fail on the settings.
C21_LoadYieldsReadableSettings ==
    [][/\ last'.op = "load_settings" =>
            /\ In("missing", last'.log) \/ In("malformed", last'.log)
                  => settings' = Defaults
            /\ IsDict(settings')
       /\ ~In("startup_error", last'.log)]_vars

\* The events that follow a destination picker when it returned a folder.
AfterPick ==
    {"copy", "copy_failed", "copy_main", "copy_main_failed", "copy_storage",
     "copy_storage_failed", "error_no_storage"}

\* The picker shown at position i of the log was cancelled.
CancelledAt(log, i) ==
    /\ log[i] \in {"pick_dest", "pick_storage"}
    /\ i = Len(log) \/ log[i + 1] \notin AfterPick

\* Prompts and changes of the file system, as events of a log.
PromptOrMutation ==
    {"ask_copy", "ask_delete", "yes", "no", "pick_dest", "pick_storage",
     "rename", "copy", "copy_main", "copy_storage", "remove",
     "copy_failed", "copy_main_failed", "copy_storage_failed",
     "rename_failed", "remove_failed"}

\* C22: in each of the three process actions a cancelled directory picker
\* aborts the action: after the cancellation the action shows no further
\* prompt and does not copy, rename or delete.
C22_CancelledPickerAborts ==
    [][last'.op \in {"do_delete", "do_retain", "do_storage"} =>
         \A i \in 1..Len(last'.log) :
            CancelledAt(last'.log, i) =>
               \A j \in (i + 1)..Len(last'.log) :
                  last'.log[j] \notin PromptOrMutation]_vars

\* The names a process action has put into a folder in this step: the names
\* of the copies it added and the names it gave in the scan folder.
NamesUsed ==
    (copies'[DestDir] \ copies[DestDir])
    \cup (copies'[StoreDir] \ copies[StoreDir])
    \cup UNION {{e.name : e \in fs'[d]} \ {e.name : e \in fs[d]} : d \in ScanDirs}

\* C23: in the three process actions the name used for the file is the
\* entered name with the original file's extension appended exactly when the
\* entered name does not end with it (compared without case), so the name used
\* always ends with the original extension.
C23_ExtensionKept ==
    [][last'.op \in {"do_delete", "do_retain", "do_storage"} =>
         LET file == rename_win[1]
             orig_ext == SplitExt(file.name)
         IN  \A n \in NamesUsed :
                /\ EndsWith(Lower(n), Lower(orig_ext))
                /\ \E entry \in EntryTexts :
                     /\ Strip(entry) # <<>>
                     /\ n = IF EndsWith(Lower(Strip(entry)), Lower(orig_ext))
                            THEN Strip(entry)
                            ELSE Strip(entry) \o orig_ext]_vars

\* The file record a disposition action of this step works on: the record of
\* the "Rename Scan" window, or the selected one for the menu's commands.
ActedRecord ==
    IF last'.op \in {"do_delete", "do_retain", "do_storage"} THEN rename_win
    ELSE IF last'.op \in {"menu_edit_file", "menu_delete_file"}
    THEN get_selected_file
    ELSE <<>>

\* The step tried to open, copy, rename or delete; it reported an error.
Attempted ==
    \E e \in {"open", "open_failed", "copy", "copy_failed", "copy_main",
              "copy_main_failed", "rename", "rename_failed", "remove",
              "remove_failed"} : In(e, last'.log)

Reported ==
    \E e \in {"error_open", "error_copy", "error_copy_main",
              "error_copy_storage", "error_rename", "error_delete"} :
       In(e, last'.log)

\* C24: a disposition action (Open, Delete, Delete Scan, Retain Scan, Retain
\* Scan in storage) carried out on the record of a file that is no longer in
\* its folder fails cleanly: the failure is reported, no file of the scan
\* folders, the destination or the storage is created, renamed or deleted, and
\* the file list, displayed_files and the flagged set are as before.
C24_StaleRecordFailsCleanly ==
    [][/\ ActedRecord # <<>>
       /\ ~Exists(fs, ActedRecord[1].dir, ActedRecord[1].name)
       /\ Attempted
       => /\ Reported
          /\ fs' = fs /\ copies' = copies
          /\ files' = files /\ displayed_files' = displayed_files
          /\ new_files' = new_files]_vars

\* The rows are the rows of self.files: one row per record, in the order of
\* the list, showing the record's name with or without the [NEW] mark.
RowsMatchFiles ==
    /\ Len(tree) = Len(files)
    /\ \A i \in 1..Len(tree) :
          tree[i].text \in {files[i].name, files[i].name \o NewTag}

\* The step handles an event of the user.
UserEvent ==
    last'.op \in {"on_left_click", "on_tree_motion", "menu_dismissed",
                  "menu_edit_file", "menu_delete_file", "menu_process_file",
                  "rename_win_closed", "reload", "select_folder"}

\* C25: whenever an event of the user is handled, the rows correspond one to
\* one and in order to self.files, and get_selected_file returns nothing or
\* the record of the file that the selected row shows.
C25_RowsMatchFilesAtUserEvents ==
    [][UserEvent =>
         /\ RowsMatchFiles
         /\ ~SelectedRaises
         /\ get_selected_file # <<>> =>
               tree[selection].text \in
                  {get_selected_file[1].name, get_selected_file[1].name \o NewTag}]_vars

\* C26: the refresh loop is one recurring task: at most one timer callback is
\* pending at any time, every timer tick schedules one next tick a period
\* later, and no other handler (Reload, Select Folder, clicks, the changes of
\* other processes) adds or removes a pending callback.
C26_SingleRecurringTick ==
    [][/\ timer' <= 1
       /\ phase = "running" /\ last'.op = "auto_refresh" =>
             timer' = 1 /\ clock'.due = Period
       /\ phase = "running" /\ last'.op # "auto_refresh" => timer' = timer]_vars

\* C27: after every refresh but the first, the flagged set is the earlier one
\* with the names of the scan that were not displayed before, displayed_files
\* is the set of the names of the scan, and the rows are the files of the
\* folder, a row being rendered [NEW] exactly when its name is flagged: a
\* flagged name that is not in the scan stays in the set and has no row.
C27_RenderedNewAreFlaggedPresent ==
    [][In("refresh", last'.log) /\ hist.scans > 0 =>
         /\ new_files' = new_files \cup (Names(files') \ displayed_files)
         /\ displayed_files' = Names(files')
         /\ Names(files') = {e.name : e \in fs'[directory']}
         /\ Len(tree') = Len(files')
         /\ \A i \in 1..Len(tree') :
               /\ tree'[i].tag <=> files'[i].name \in new_files'
               /\ tree'[i].text = IF files'[i].name \in new_files'
                                  THEN files'[i].name \o NewTag
                                  ELSE files'[i].name]_vars

\* C27 witness: a later refresh has rendered a row as new while a flagged
\* name is not in the folder that is listed.
C27_Witness ==
    /\ In("refresh", last.log)
    /\ hist.scans = 2
    /\ \E i \in 1..Len(tree) : tree[i].tag
    /\ new_files \ Names(files) # {}

\* C28: once the main window is destroyed no timer callback is pending and
\* no timer tick runs; while the window runs at most one callback is pending,
\* and in the build that records the timer id the recorded id is the id of the
\* pending callback whenever one is pending.
C28_DestroyEndsTicks ==
    [][/\ phase' = "destroyed" => timer' = 0
       /\ phase = "destroyed" => last'.op # "auto_refresh"
       /\ timer' <= 1
       /\ build = "SemiFinal" /\ timer' = 1 => auto_refresh_id' = "pending"
       /\ build = "PreIcons" => auto_refresh_id' = "none"]_vars

\* C28 witness: the window was closed between two ticks: the recorded id is
\* the id of the callback that was pending, and nothing is pending any more.
C28_Witness ==
    /\ last.op = "destroy"
    /\ phase = "destroyed"
    /\ auto_refresh_id = "pending"
    /\ timer = 0
    /\ clock.due > 0

\* C29: a Retain Scan that succeeds and whose refresh completes flags the
\* file under its new name and renders it [NEW] when that name was not in the
\* previous snapshot, and leaves the old name in the flagged set when it was
\* there.
C29_RenamedFileIsNewArrival ==
    [][/\ last'.op = "do_retain"
       /\ In("copy", last'.log)
       /\ In("refresh", last'.log)
       => LET file == rename_win[1]
          IN  \E n \in GivenNames(file) :
                /\ fs' = Rename(fs, file.dir, file.name, n)
                /\ n \notin displayed_files =>
                      /\ n \in new_files'
                      /\ \E i \in 1..Len(tree') :
                            /\ files'[i].name = n
                            /\ tree'[i] = [text |-> n \o NewTag, tag |-> TRUE]
                /\ file.name \in new_files => file.name \in new_files']_vars

\* C29 witness: after a Retain Scan under a name the folder did not hold, the
\* renamed file has a [NEW] row and the old name, flagged before, is still in
\* the flagged set without being in the folder.
C29_Witness ==
    /\ last.op = "do_retain"
    /\ In("refresh", last.log)
    /\ \E i \in 1..Len(tree) : tree[i].tag /\ files[i].name \notin ArrivalNames
    /\ \E n \in ArrivalNames : n \in new_files /\ n \notin Names(files)

\* The names a process action would use for an entry that is empty or blank.
BlankNames(file) ==
    {EffectiveName(file, entry) : entry \in {e \in EntryTexts : Strip(e) = <<>>}}

\* C30: with an empty or blank entry each of the three process actions only
\* warns: it shows no picker and no confirmation, copies, renames and deletes
\* nothing, leaves the "Rename Scan" window open and does not refresh; no
\* file is ever copied or renamed to the name made of a blank entry.
C30_BlankNameOnlyWarns ==
    [][last'.op \in {"do_delete", "do_retain", "do_storage"} =>
         /\ In("warn_no_name", last'.log) =>
               /\ last'.log = <<"warn_no_name">>
               /\ fs' = fs /\ copies' = copies
               /\ rename_win' = rename_win /\ rename_win' # <<>>
               /\ ~RefreshCalled
               /\ files' = files /\ tree' = tree /\ new_files' = new_files
               /\ displayed_files' = displayed_files
         /\ NamesUsed \cap BlankNames(rename_win[1]) = {}]_vars

\* C30 witness: Retain Scan in storage has just warned about the missing name;
\* the window is open and nothing was copied.
C30_Witness ==
    /\ last.op = "do_storage"
    /\ last.log = <<"warn_no_name">>
    /\ rename_win # <<>>
    /\ copies = [d \in {DestDir, StoreDir} |-> {}]
    /\ Cardinality(fs["A"]) = 2

====
